---- MODULE Spec2Model ----
(***************************************************************************)
(* Model of the incremental synchronization engine of                      *)
(* mdx-embeddings-actions: generateEmbeddings (src/generate-embeddings2.ts) *)
(* run against the two-table store of db/migrations/0000_swift_iceman.sql.  *)
(*                                                                         *)
(* Every awaited store statement of the engine is one action, so that a    *)
(* killed process (Kill) can stop a run between any two of them.           *)
(***************************************************************************)
EXTENDS Integers, Sequences, FiniteSets, TLC

(***************************************************************************)
(* Bounds of the model.                                                    *)
(***************************************************************************)
\* number of runs of generateEmbeddings in one behaviour
MaxRuns == 2
\* number of single-file changes made to the docs tree between runs
MaxEdits == 1
\* number of top-level nodes of a tree given to splitTreeBy
MaxNodes == 4

(***************************************************************************)
(* File names.  A name is its path segments plus its extension, so that    *)
(* the two regular expressions of createMarkdownSource can be applied.     *)
(***************************************************************************)
File(segs, ext) == [segs |-> segs, ext |-> ext]

\* the absent path (undefined parentPath, NULL parent_path column)
NoPath == File(<< >>, "")

\* the docs tree of the model, in the order of String.localeCompare
FileOrder ==
  << File(<<"docs", "a">>, ""), File(<<"docs", "a">>, ".md"),
     File(<<"docs", "b">>, ""), File(<<"docs", "b">>, ".mdx") >>

FileNames == { FileOrder[n] : n \in 1..Len(FileOrder) }

\* a second docs tree, with a directory: the index document docs/guides.mdx
\* beside the directory docs/guides, and in the directory api.md, guides.mdx
\* and setup.md, the last two with the extension-less file name the loader
\* reads
GuideOrder ==
  << File(<<"docs", "guides">>, ".mdx"),
     File(<<"docs", "guides", "api">>, ".md"),
     File(<<"docs", "guides", "guides">>, ""), File(<<"docs", "guides", "guides">>, ".mdx"),
     File(<<"docs", "guides", "setup">>, ""), File(<<"docs", "guides", "setup">>, ".md") >>

GuideNames == { GuideOrder[n] : n \in 1..Len(GuideOrder) }

\* a third docs tree: the file pages/404.mdx under the root docs, with the
\* extension-less file name the loader reads
PagesOrder ==
  << File(<<"docs", "pages", "404">>, ""), File(<<"docs", "pages", "404">>, ".mdx") >>

PagesNames == { PagesOrder[n] : n \in 1..Len(PagesOrder) }

\* every name walk can meet, in the order of String.localeCompare
WalkOrder == FileOrder \o GuideOrder \o PagesOrder

\* /\.mdx?$/.test(path)
IsMarkdown(f) == f.ext \in {".md", ".mdx"}

\* ignoredFiles = ["pages/404.mdx"]
ignoredFiles == { File(<<"pages", "404">>, ".mdx") }

(***************************************************************************)
(* File contents.  A content is a number; NoFile says there is no file.    *)
(***************************************************************************)
NoFile == 0
Contents == {1, 2}

\* createHash("sha256").update(content).digest("base64"): one value per content
ChecksumOf(c) == 100 + c
NullChecksum == 0

\* extractMetaExport: the meta export of a content
MetaOf(c) == 200 + (c % 2)

\* splitTreeBy(mdTree, heading): content 1 has two sections, content 2 one
NumSections(c) == IF c = 1 THEN 2 ELSE 1

\* the n-th section of content c, as loadMarkdownSource returns it
SectionOf(c, n) == [content |-> <<c, n>>, heading |-> IF n = 1 THEN 0 ELSE n, slug |-> IF n = 1 THEN 0 ELSE n]

\* the embedding the provider returns for an input text
EmbeddingOf(text) == 1000 + 10 * text[1] + text[2]

NullId == 0
NoPage == [id |-> NullId]

VARIABLES
  fs,                    \* the docs tree: file name -> content or NoFile
  edits,                 \* number of file changes made so far
  pages,                 \* rows of table pages
  pageSections,          \* rows of table page_sections
  nextId,                \* randomUUID(): the next unused id
  runs,                  \* number of runs started so far
  pc,                    \* position of the run in generateEmbeddings
  shouldRefreshAllPages, \* the run's flag
  refreshVersion,        \* the run's version stamp
  embeddingSources,      \* the run's source list
  idx,                   \* index of the source in the for loop
  loaded,                \* content loaded for the current source
  existingPage,          \* row found for the current source, or NoPage
  newPage,               \* id of the row inserted for the current source
  sec,                   \* index of the next section to embed
  pre,                   \* history: the tables as the current run found them
  log,                   \* history: what the current (or last) run did
  prevLog,               \* history: what the run before it did
  poolEnds,              \* number of pool.end() calls on the current run's pool
  reported,              \* what run() of main.ts reported for the last run
  mdTree,                \* splitTreeBy: the children of the tree to split
  node,                  \* splitTreeBy: index of the child the callback is at
  sectionTrees           \* splitTreeBy: the trees made so far

store == << pages, pageSections, nextId >>
locals == << embeddingSources, idx, loaded, existingPage, newPage, sec >>
runvars == << runs, shouldRefreshAllPages, refreshVersion >>
proc == << poolEnds, reported >>
split == << mdTree, node, sectionTrees >>
env == << fs, edits >>
hist == << pre, log, prevLog >>
vars == << fs, edits, pages, pageSections, nextId, runs, pc, shouldRefreshAllPages,
           refreshVersion, embeddingSources, idx, loaded, existingPage, newPage, sec,
           pre, log, prevLog, poolEnds, reported, mdTree, node, sectionTrees >>

(***************************************************************************)
(* Source enumeration.                                                     *)
(***************************************************************************)
\* readdir lists the file
Present(tree, f) == f \in DOMAIN tree /\ tree[f] # NoFile

\* walk.ts lines 16-24: the parentPath handed to the files of directory dir.
\* The root has none; a directory d whose PARENT lists "d.mdx" hands down
\* join(d, "d.mdx"); any other directory hands down what it was given.
RECURSIVE nextPath(_, _)
nextPath(tree, dir) ==
  IF Len(dir) <= 1 THEN NoPath
  ELSE IF Present(tree, File(dir, ".mdx"))
         THEN File(dir \o << dir[Len(dir)] >>, ".mdx")
         ELSE nextPath(tree, SubSeq(dir, 1, Len(dir) - 1))

\* walk(docsRootPath): one entry per file of the tree, sorted by path
walk(tree) ==
  LET present(f) == Present(tree, f)
      names == SelectSeq(WalkOrder, present)
  IN  [n \in 1..Len(names) |->
         [path |-> names[n],
          parentPath |-> nextPath(tree, SubSeq(names[n].segs, 1, Len(names[n].segs) - 1))]]

\* filePath.replace(/^pages/, "").replace(/\.mdx?$/, "")
NormalizePath(f) ==
  IF f = NoPath THEN NoPath
  ELSE File(IF Len(f.segs) > 0 /\ Head(f.segs) = "pages" THEN <<"">> \o Tail(f.segs) ELSE f.segs,
            IF IsMarkdown(f) THEN "" ELSE f.ext)

createMarkdownSource(filePath, parentFilePath) ==
  [path |-> NormalizePath(filePath), parentPath |-> NormalizePath(parentFilePath)]

generateEmbeddingSources(tree) ==
  LET foundDocs == walk(tree)
      keep(e) == e.path \notin ignoredFiles /\ IsMarkdown(e.path)
      markdownFiles == SelectSeq(foundDocs, keep)
  IN  [n \in 1..Len(markdownFiles) |->
         createMarkdownSource(markdownFiles[n].path, markdownFiles[n].parentPath)]

\* loadMarkdownSource(sourceData): readFile(sourceData.path); NoFile is a
\* rejected read (ENOENT, or EISDIR when the path names a directory)
loadMarkdownSource(sourceData) ==
  IF sourceData.path \in DOMAIN fs THEN fs[sourceData.path] ELSE NoFile

(***************************************************************************)
(* The store.                                                              *)
(***************************************************************************)
\* page_sections_page_id_pages_id_fk, ON DELETE no action: a DELETE on pages
\* fails when a row of page_sections still references a deleted row
FkAllowsDelete(victims) ==
  \A s \in pageSections : s.page_id \notin { p.id : p \in victims }

PagesByPath(path) == { p \in pages : p.path = path }
SectionsOfPage(id) == { s \in pageSections : s.page_id = id }

\* an insert that never links the row to its parent
PageRow_Unlinked(id, path, parent, checksum, meta, version) ==
  [id |-> id, path |-> path, parent_page_id |-> NullId, parent_path |-> NoPath,
   checksum |-> checksum, meta |-> meta, version |-> version, last_refresh |-> version]

\* a row of pages / of page_sections, as the insert statements write them
PageRow(id, path, parent, checksum, meta, version) ==
  [id |-> id, path |-> path, parent_page_id |-> parent.id, parent_path |-> parent.path,
   checksum |-> checksum, meta |-> meta, version |-> version, last_refresh |-> version]

SectionRow(id, page_id, section) ==
  [id |-> id, page_id |-> page_id, slug |-> section.slug, heading |-> section.heading,
   content |-> section.content, embedding |-> EmbeddingOf(section.content)]

NoParent == [id |-> NullId, path |-> NoPath]

\* The store outlives the runs.  What a run may find in it at the start of a
\* behaviour: for each path nothing, or the page of an earlier completed
\* synchronisation of content 1 (checksum set, all sections stored, stamp 0).
SyncedPage(path, id) == PageRow(id, path, NoParent, ChecksumOf(1), MetaOf(1), 0)
SyncedSections(id) == { SectionRow(id + n, id, SectionOf(1, n)) : n \in 1..NumSections(1) }

\* the synced page of a path whose parent lookup (line 80) found `parent`
LinkedPage(path, id, parent) == PageRow(id, path, parent, ChecksumOf(1), MetaOf(1), 0)

PathA == File(<<"docs", "a">>, "")
PathB == File(<<"docs", "b">>, "")

\* the history of a run: the tree it ran over, how it ended ("running",
\* "killed", "walkFailed", "wipeFailed", "pruneFailed", "complete"), the paths
\* whose iteration ended in the catch of line 128, those among them whose
\* embedding call failed, the paths that took the skip path, and the paths
\* for which the sections of a found row were deleted (line 76)
NoLog == [tree |-> [f \in FileNames |-> NoFile], flag |-> FALSE, status |-> "none",
          failed |-> {}, embedFailed |-> {}, skipped |-> {}, replaced |-> {}]

Init ==
  /\ fs \in { f \in [FileNames -> Contents \cup {NoFile}] :
                \A n \in FileNames : IsMarkdown(n) => f[n] = 1 }
  /\ edits = 0
  /\ \E hasA \in BOOLEAN, hasB \in BOOLEAN :
       /\ pages = (IF hasA THEN {SyncedPage(PathA, 1)} ELSE {})
                     \cup (IF hasB THEN {SyncedPage(PathB, 4)} ELSE {})
       /\ pageSections = (IF hasA THEN SyncedSections(1) ELSE {})
                            \cup (IF hasB THEN SyncedSections(4) ELSE {})
  /\ nextId = 7
  /\ runs = 0
  /\ pc = "idle"
  /\ shouldRefreshAllPages = FALSE
  /\ refreshVersion = 0
  /\ embeddingSources = << >>
  /\ idx = 0
  /\ loaded = NoFile
  /\ existingPage = NoPage
  /\ newPage = NullId
  /\ sec = 0
  /\ pre = [pages |-> pages, pageSections |-> pageSections]
  /\ log = NoLog
  /\ prevLog = NoLog
  /\ poolEnds = 0
  /\ reported = "none"
  /\ mdTree = << >>
  /\ node = 0
  /\ sectionTrees = << >>

ResetLocals ==
  /\ embeddingSources' = << >>
  /\ idx' = 0
  /\ loaded' = NoFile
  /\ existingPage' = NoPage
  /\ newPage' = NullId
  /\ sec' = 0

(***************************************************************************)
(* The environment: the docs tree changes between runs.  Only the edits    *)
(* that a later run can see are explored.                                  *)
(***************************************************************************)
EditFile ==
  /\ pc = "idle"
  /\ edits < MaxEdits
  /\ runs < MaxRuns
  /\ \E f \in FileNames, c \in Contents \cup {NoFile} :
       /\ c # fs[f]
       /\ IsMarkdown(f) => c \in {NoFile, 1}
       /\ fs' = [fs EXCEPT ![f] = c]
  /\ edits' = edits + 1
  /\ UNCHANGED << store, runvars, split, proc, pc, locals, hist >>

(***************************************************************************)
(* generateEmbeddings                                                      *)
(***************************************************************************)
\* lines 23-38: a run starts with a fresh version stamp
StartRun ==
  /\ pc = "idle"
  /\ runs < MaxRuns
  /\ runs' = runs + 1
  /\ refreshVersion' = runs + 1
  /\ shouldRefreshAllPages' \in BOOLEAN
  /\ pc' = "walk"
  /\ pre' = [pages |-> pages, pageSections |-> pageSections]
  /\ prevLog' = log
  /\ log' = [NoLog EXCEPT !.tree = fs, !.flag = shouldRefreshAllPages', !.status = "running"]
  /\ poolEnds' = 0
  /\ reported' = "none"
  /\ UNCHANGED << env, store, locals, split >>

\* walk.ts line 14 takes isDirectory and isFile off the Stats object, and
\* lines 16 and 27 call them detached from it; the methods of fs.Stats read
\* `this`, so the detached call throws a TypeError for the first entry of a
\* directory.  The walk of unnamed/part_005 (lines 19-32) calls them on the
\* object.  Both builds are kept.
StatCalls == {"detached", "onObject"}

\* the walk rejects: readdir cannot read the root, or a detached Stats method
\* is called for an entry
walkRejects(tree, readable, statCall) ==
  \/ ~readable
  \/ statCall = "detached" /\ \E f \in DOMAIN tree : Present(tree, f)

\* an enumeration whose rejection is caught before the pruning statement, so
\* that the run goes on to prune with an empty source list
Enumerate_PruningOnFailure ==
  /\ pc = "walk"
  /\ \E readable \in BOOLEAN, statCall \in StatCalls :
       IF walkRejects(fs, readable, statCall)
         THEN /\ pc' = "prune"
              /\ log' = [log EXCEPT !.status = "walkFailed"]
              /\ UNCHANGED << embeddingSources, idx >>
         ELSE /\ embeddingSources' = generateEmbeddingSources(fs)
              /\ idx' = 1
              /\ pc' = IF shouldRefreshAllPages THEN "wipePages"
                        ELSE IF embeddingSources' = << >> THEN "prune" ELSE "loop"
              /\ UNCHANGED log
  /\ UNCHANGED << env, store, runvars, split, proc, loaded, existingPage, newPage, sec, pre, prevLog >>

\* lines 41-46: the source list; a rejected walk is caught by the outer catch
Enumerate ==
  /\ pc = "walk"
  /\ \E readable \in BOOLEAN, statCall \in StatCalls :
       IF walkRejects(fs, readable, statCall)
         THEN /\ pc' = "finally"
              /\ log' = [log EXCEPT !.status = "walkFailed"]
              /\ UNCHANGED << embeddingSources, idx >>
         ELSE /\ embeddingSources' = generateEmbeddingSources(fs)
              /\ idx' = 1
              /\ pc' = IF shouldRefreshAllPages THEN "wipePages"
                        ELSE IF embeddingSources' = << >> THEN "prune" ELSE "loop"
              /\ UNCHANGED log
  /\ UNCHANGED << env, store, runvars, split, proc, loaded, existingPage, newPage, sec, pre, prevLog >>

\* line 51: await db.delete(pages).execute()
WipePages ==
  /\ pc = "wipePages"
  /\ IF FkAllowsDelete(pages)
       THEN pages' = {} /\ pc' = "wipeSections" /\ UNCHANGED log
       ELSE pages' = pages /\ pc' = "finally" /\ log' = [log EXCEPT !.status = "wipeFailed"]
  /\ UNCHANGED << env, pageSections, nextId, runvars, split, proc, locals, pre, prevLog >>

\* line 52: await db.delete(pageSections).execute()
WipeSections ==
  /\ pc = "wipeSections"
  /\ pageSections' = {}
  /\ pc' = IF embeddingSources = << >> THEN "prune" ELSE "loop"
  /\ UNCHANGED << env, pages, nextId, runvars, split, proc, locals, hist >>

\* a loop that steps over the source after the current one
NextSource_SkippingOne ==
  /\ idx' = idx + 2
  /\ pc' = IF idx + 2 > Len(embeddingSources) THEN "prune" ELSE "loop"
  /\ loaded' = NoFile
  /\ existingPage' = NoPage
  /\ newPage' = NullId
  /\ sec' = 0
  /\ UNCHANGED embeddingSources

\* end of one iteration of the for loop (also through the catch of line 128)
NextSource ==
  /\ idx' = idx + 1
  /\ pc' = IF idx + 1 > Len(embeddingSources) THEN "prune" ELSE "loop"
  /\ loaded' = NoFile
  /\ existingPage' = NoPage
  /\ newPage' = NullId
  /\ sec' = 0
  /\ UNCHANGED embeddingSources

\* a decision that looks only at whether a row was found
ShouldRefreshExistingPage_OnlyMissing(row, checksum) ==
  row = NoPage

\* a decision that never compares the stored checksum: every found row is
\* refreshed
ShouldRefreshExistingPage_Always(row, checksum) ==
  TRUE

\* line 62: !existingPage || existingPage.checksum !== checksum
ShouldRefreshExistingPage(row, checksum) ==
  row = NoPage \/ row.checksum # checksum

\* a handler inside the section loop that does not throw again: the failed
\* section is left out and the loop over the sections goes on
Caught_InsideSectionLoop(embedding) ==
  IF embedding
    THEN /\ sec' = sec + 1
         /\ pc' = IF sec + 1 > NumSections(loaded) THEN "setChecksum" ELSE "embed"
         /\ UNCHANGED << embeddingSources, idx, loaded, existingPage, newPage, log >>
    ELSE /\ NextSource
         /\ log' = [log EXCEPT !.failed = @ \cup {embeddingSources[idx].path}]

\* the catch of lines 128-131: the source is given up, the loop goes on
Caught(embedding) ==
  /\ NextSource
  /\ log' = [log EXCEPT !.failed = @ \cup {embeddingSources[idx].path},
                        !.embedFailed = IF embedding THEN @ \cup {embeddingSources[idx].path}
                                        ELSE @]

\* lines 58-65 and the test of line 75: load the source, look its page up
\* (LIMIT 1 without ORDER BY: any row of that path) and decide what to do.
\* existingPage.id of line 76 throws a TypeError when there is no such row.
LoadSource ==
  /\ pc = "loop"
  /\ LET embeddingSource == embeddingSources[idx]
         content == loadMarkdownSource(embeddingSource)
         found == PagesByPath(embeddingSource.path)
     IN  IF content = NoFile
           THEN Caught(FALSE)
           ELSE \E row \in (IF found = {} THEN {NoPage} ELSE found) :
                  LET shouldRefreshExistingPage ==
                        ShouldRefreshExistingPage(row, ChecksumOf(content))
                      shouldRefresh == shouldRefreshAllPages \/ shouldRefreshExistingPage
                  IN  IF shouldRefreshExistingPage /\ row = NoPage
                        THEN Caught(FALSE)
                        ELSE /\ loaded' = content
                             /\ UNCHANGED log
                             /\ existingPage' = row
                             /\ pc' = IF ~shouldRefresh THEN "skip"
                                       ELSE IF shouldRefreshExistingPage THEN "deleteOld"
                                       ELSE "insertPage"
                             /\ UNCHANGED << embeddingSources, idx, newPage, sec >>
  /\ UNCHANGED << env, store, runvars, split, proc, pre, prevLog >>

\* a stamp that also clears the checksum of the row
SkippedRow_ClearingChecksum(p, meta, version) ==
  [p EXCEPT !.meta = meta, !.version = version, !.last_refresh = version,
            !.checksum = NullChecksum]

\* lines 67-71: .set({ meta, version, last_refresh }) on one row
SkippedRow(p, meta, version) ==
  [p EXCEPT !.meta = meta, !.version = version, !.last_refresh = version]

\* lines 65-73: the page is unchanged; stamp it with this run's version
SkipUpdate ==
  /\ pc = "skip"
  /\ pages' = { IF p.id = existingPage.id
                  THEN SkippedRow(p, MetaOf(loaded), refreshVersion)
                  ELSE p : p \in pages }
  /\ NextSource
  /\ log' = [log EXCEPT !.skipped = @ \cup {embeddingSources[idx].path}]
  /\ UNCHANGED << env, pageSections, nextId, runvars, split, proc, pre, prevLog >>

\* lines 75-78: remove the sections of the row that was found
DeleteOldSections ==
  /\ pc = "deleteOld"
  /\ pageSections' = pageSections \ SectionsOfPage(existingPage.id)
  /\ pc' = "insertPage"
  /\ log' = [log EXCEPT !.replaced = @ \cup {embeddingSources[idx].path}]
  /\ UNCHANGED << env, pages, nextId, runvars, split, proc, locals, pre, prevLog >>

\* lines 80-95: look the parent up by path and insert a row with a new id
\* and a null checksum
InsertPage ==
  /\ pc = "insertPage"
  /\ LET embeddingSource == embeddingSources[idx]
         found == IF embeddingSource.parentPath = NoPath THEN {}
                  ELSE PagesByPath(embeddingSource.parentPath)
     IN  \E parentPage \in (IF found = {} THEN {NoParent} ELSE found) :
           pages' = pages \cup
             { PageRow(nextId, embeddingSource.path, parentPage, NullChecksum,
                       MetaOf(loaded), refreshVersion) }
  /\ newPage' = nextId
  /\ nextId' = nextId + 1
  /\ sec' = 1
  /\ pc' = IF NumSections(loaded) = 0 THEN "setChecksum" ELSE "embed"
  /\ UNCHANGED << env, pageSections, runvars, split, proc, embeddingSources, idx, loaded, existingPage, hist >>

\* what openai.createEmbedding can answer: HTTP 200, another status, or a
\* rejected promise (status 0 here)
EmbeddingStatuses == {200, 429, 0}

\* a client that takes the body of every answered request, whatever its
\* status; only a rejected promise is a failure
EmbedResponse_AcceptingAnyStatus(status) ==
  IF status # 0
    THEN /\ pageSections' = pageSections \cup
              { SectionRow(nextId, newPage, SectionOf(loaded, sec)) }
         /\ nextId' = nextId + 1
         /\ sec' = sec + 1
         /\ pc' = IF sec + 1 > NumSections(loaded) THEN "setChecksum" ELSE "embed"
         /\ UNCHANGED << embeddingSources, idx, loaded, existingPage, newPage, log >>
    ELSE /\ Caught(TRUE)
         /\ UNCHANGED << pageSections, nextId >>

\* lines 102-119: the answer to one createEmbedding call; any answer but 200
\* is thrown (line 103), thrown again (line 119), and ends the work on this
\* source
EmbedResponse(status) ==
  IF status = 200
    THEN /\ pageSections' = pageSections \cup
              { SectionRow(nextId, newPage, SectionOf(loaded, sec)) }
         /\ nextId' = nextId + 1
         /\ sec' = sec + 1
         /\ pc' = IF sec + 1 > NumSections(loaded) THEN "setChecksum" ELSE "embed"
         /\ UNCHANGED << embeddingSources, idx, loaded, existingPage, newPage, log >>
    ELSE /\ Caught(TRUE)
         /\ UNCHANGED << pageSections, nextId >>

\* lines 99-121: embed one section and insert its row
EmbedSection ==
  /\ pc = "embed"
  /\ \E status \in EmbeddingStatuses : EmbedResponse(status)
  /\ UNCHANGED << env, pages, runvars, split, proc, pre, prevLog >>

\* lines 123-127: all sections are stored; set the checksum of the new row
SetChecksum ==
  /\ pc = "setChecksum"
  /\ pages' = { IF p.id = newPage THEN [p EXCEPT !.checksum = ChecksumOf(loaded)] ELSE p :
                  p \in pages }
  /\ NextSource
  /\ UNCHANGED << env, pageSections, nextId, runvars, split, proc, hist >>

\* a prune that also removes the rows left with a null checksum
Prune_AlsoUnfinished ==
  /\ pc = "prune"
  /\ LET outdated == { p \in pages : p.version # refreshVersion \/ p.checksum = NullChecksum }
     IN  IF FkAllowsDelete(outdated)
           THEN pages' = pages \ outdated /\ log' = [log EXCEPT !.status = "complete"]
           ELSE pages' = pages /\ log' = [log EXCEPT !.status = "pruneFailed"]
  /\ pc' = "finally"
  /\ UNCHANGED << env, pageSections, nextId, runvars, split, proc, locals, pre, prevLog >>

\* a prune that takes the parents of the deleted rows, and the sections of
\* those parents, along
Prune_WithParents ==
  /\ pc = "prune"
  /\ LET outdated == { p \in pages : p.version # refreshVersion }
         parents == { q \in pages : \E p \in outdated : p.parent_page_id = q.id }
     IN  IF FkAllowsDelete(outdated)
           THEN /\ pages' = pages \ (outdated \cup parents)
                /\ pageSections' = { s \in pageSections : s.page_id \notin { q.id : q \in parents } }
                /\ log' = [log EXCEPT !.status = "complete"]
           ELSE /\ pages' = pages /\ pageSections' = pageSections
                /\ log' = [log EXCEPT !.status = "pruneFailed"]
  /\ pc' = "finally"
  /\ UNCHANGED << env, nextId, runvars, split, proc, locals, pre, prevLog >>

\* a prune outside any try block: a rejected DELETE ends the function at
\* once, without the finally block
Prune_Uncaught ==
  /\ pc = "prune"
  /\ LET outdated == { p \in pages : p.version # refreshVersion }
     IN  IF FkAllowsDelete(outdated)
           THEN /\ pages' = pages \ outdated
                /\ log' = [log EXCEPT !.status = "complete"]
                /\ pc' = "finally"
           ELSE /\ pages' = pages
                /\ log' = [log EXCEPT !.status = "pruneFailed"]
                /\ pc' = "idle"
  /\ UNCHANGED << env, pageSections, nextId, runvars, split, proc, locals, pre, prevLog >>

\* lines 134-136: delete the pages that do not carry this run's version
Prune ==
  /\ pc = "prune"
  /\ LET outdated == { p \in pages : p.version # refreshVersion }
     IN  IF FkAllowsDelete(outdated)
           THEN pages' = pages \ outdated /\ log' = [log EXCEPT !.status = "complete"]
           ELSE pages' = pages /\ log' = [log EXCEPT !.status = "pruneFailed"]
  /\ pc' = "finally"
  /\ UNCHANGED << env, pageSections, nextId, runvars, split, proc, locals, pre, prevLog >>

\* lines 146-148: pool.end(), the run is over.  generateEmbeddings has caught
\* every error, so its promise resolves and run() of main.ts goes on to
\* core.notice (main.ts line 64), never to the catch with core.setFailed
PoolEnd ==
  /\ pc = "finally"
  /\ pc' = "idle"
  /\ ResetLocals
  /\ poolEnds' = poolEnds + 1
  /\ reported' = "notice"
  /\ UNCHANGED << env, store, runvars, split, hist >>

\* the process is killed between two statements of a run; what the run had
\* recorded about its sources is lost with it
Kill ==
  /\ pc \notin {"idle", "finally"}
  /\ pc' = "idle"
  /\ ResetLocals
  /\ log' = [NoLog EXCEPT !.tree = log.tree, !.flag = log.flag, !.status = "killed"]
  /\ UNCHANGED << env, store, runvars, split, proc, pre, prevLog >>

Next ==
  \/ EditFile
  \/ StartRun
  \/ Enumerate
  \/ WipePages
  \/ WipeSections
  \/ LoadSource
  \/ SkipUpdate
  \/ DeleteOldSections
  \/ InsertPage
  \/ EmbedSection
  \/ SetChecksum
  \/ Prune
  \/ PoolEnd
  \/ Kill

Spec == Init /\ [][Next]_vars

(***************************************************************************)
(* One run over the tree with the directory.  The store holds, for each of *)
(* the three source paths, nothing or a synced page; the page of setup may *)
(* be linked to the page its parentPath names.                             *)
(***************************************************************************)
GuidesIndex == File(<<"docs", "guides">>, ".mdx")
InnerIndex == File(<<"docs", "guides", "guides">>, ".mdx")
SetupFile == File(<<"docs", "guides", "setup">>, ".md")

GuidesInit ==
  /\ fs \in { f \in [GuideNames -> Contents \cup {NoFile}] :
                /\ f[SetupFile] = 1
                /\ \A n \in GuideNames : IsMarkdown(n) => f[n] \in {NoFile, 1} }
  /\ edits = MaxEdits
  /\ \E hasIndex \in BOOLEAN, hasInner \in BOOLEAN, hasSetup \in BOOLEAN, linked \in BOOLEAN :
       /\ linked => hasInner /\ hasSetup
       /\ pages = (IF hasIndex THEN {SyncedPage(NormalizePath(GuidesIndex), 1)} ELSE {})
                     \cup (IF hasInner THEN {SyncedPage(NormalizePath(InnerIndex), 4)} ELSE {})
                     \cup (IF hasSetup
                             THEN {IF linked
                                     THEN LinkedPage(NormalizePath(SetupFile), 7,
                                                     SyncedPage(NormalizePath(InnerIndex), 4))
                                     ELSE SyncedPage(NormalizePath(SetupFile), 7)}
                             ELSE {})
       /\ pageSections = (IF hasIndex THEN SyncedSections(1) ELSE {})
                            \cup (IF hasInner THEN SyncedSections(4) ELSE {})
                            \cup (IF hasSetup THEN SyncedSections(7) ELSE {})
  /\ nextId = 10
  /\ runs = MaxRuns - 1
  /\ pc = "idle"
  /\ shouldRefreshAllPages = FALSE
  /\ refreshVersion = 0
  /\ embeddingSources = << >>
  /\ idx = 0
  /\ loaded = NoFile
  /\ existingPage = NoPage
  /\ newPage = NullId
  /\ sec = 0
  /\ pre = [pages |-> pages, pageSections |-> pageSections]
  /\ log = NoLog
  /\ prevLog = NoLog
  /\ poolEnds = 0
  /\ reported = "none"
  /\ mdTree = << >>
  /\ node = 0
  /\ sectionTrees = << >>

GuidesNext ==
  \/ StartRun
  \/ Enumerate
  \/ WipePages
  \/ WipeSections
  \/ LoadSource
  \/ SkipUpdate
  \/ DeleteOldSections
  \/ InsertPage
  \/ EmbedSection
  \/ SetChecksum
  \/ Prune
  \/ PoolEnd
  \/ Kill

GuidesSpec == GuidesInit /\ [][GuidesNext]_vars

(***************************************************************************)
(* One run over the tree docs/pages/404.mdx.  The store holds nothing or   *)
(* a synced page of that path.                                             *)
(***************************************************************************)
NotFoundFile == File(<<"docs", "pages", "404">>, ".mdx")

PagesInit ==
  /\ fs \in { f \in [PagesNames -> Contents \cup {NoFile}] :
                \A n \in PagesNames : IsMarkdown(n) => f[n] \in {NoFile, 1} }
  /\ edits = MaxEdits
  /\ \E hasPage \in BOOLEAN :
       /\ pages = (IF hasPage THEN {SyncedPage(NormalizePath(NotFoundFile), 1)} ELSE {})
       /\ pageSections = (IF hasPage THEN SyncedSections(1) ELSE {})
  /\ nextId = 4
  /\ runs = MaxRuns - 1
  /\ pc = "idle"
  /\ shouldRefreshAllPages = FALSE
  /\ refreshVersion = 0
  /\ embeddingSources = << >>
  /\ idx = 0
  /\ loaded = NoFile
  /\ existingPage = NoPage
  /\ newPage = NullId
  /\ sec = 0
  /\ pre = [pages |-> pages, pageSections |-> pageSections]
  /\ log = NoLog
  /\ prevLog = NoLog
  /\ poolEnds = 0
  /\ reported = "none"
  /\ mdTree = << >>
  /\ node = 0
  /\ sectionTrees = << >>

PagesNext ==
  \/ StartRun
  \/ Enumerate
  \/ WipePages
  \/ WipeSections
  \/ LoadSource
  \/ SkipUpdate
  \/ DeleteOldSections
  \/ InsertPage
  \/ EmbedSection
  \/ SetChecksum
  \/ Prune
  \/ PoolEnd
  \/ Kill

PagesSpec == PagesInit /\ [][PagesNext]_vars

(***************************************************************************)
(* splitTreeBy (markdown.ts lines 70-82), applied to the top-level nodes   *)
(* of a document.  A node is its type; one step is one call of the reduce  *)
(* callback.                                                               *)
(***************************************************************************)
NodeTypes == {"heading", "paragraph", "code"}

\* (node) => node.type === "heading"
predicate(n) == n = "heading"

\* a callback that closes a tree after a heading instead of opening one
\* before it
splitCallback_ClosingAfter(trees, n) ==
  IF trees = << >> \/ predicate(trees[Len(trees)][Len(trees[Len(trees)])])
    THEN Append(trees, << n >>)
    ELSE [trees EXCEPT ![Len(trees)] = Append(@, n)]

\* lines 71-81: the reduce callback
splitCallback(trees, n) ==
  IF trees = << >> \/ predicate(n)
    THEN Append(trees, << n >>)
    ELSE [trees EXCEPT ![Len(trees)] = Append(@, n)]

SplitInit ==
  /\ mdTree \in UNION { [1..n -> NodeTypes] : n \in 0..MaxNodes }
  /\ node = 1
  /\ sectionTrees = << >>
  /\ fs = [f \in FileNames |-> NoFile]
  /\ edits = MaxEdits
  /\ pages = {}
  /\ pageSections = {}
  /\ nextId = 1
  /\ runs = MaxRuns
  /\ pc = "idle"
  /\ shouldRefreshAllPages = FALSE
  /\ refreshVersion = 0
  /\ embeddingSources = << >>
  /\ idx = 0
  /\ loaded = NoFile
  /\ existingPage = NoPage
  /\ newPage = NullId
  /\ sec = 0
  /\ pre = [pages |-> {}, pageSections |-> {}]
  /\ log = NoLog
  /\ prevLog = NoLog
  /\ poolEnds = 0
  /\ reported = "none"

SplitNode ==
  /\ node <= Len(mdTree)
  /\ sectionTrees' = splitCallback(sectionTrees, mdTree[node])
  /\ node' = node + 1
  /\ UNCHANGED << mdTree, env, store, runvars, proc, pc, locals, hist >>

SplitNext == SplitNode

SplitSpec == SplitInit /\ [][SplitNext]_vars

(***************************************************************************)
(* Vocabulary of the properties.                                           *)
(***************************************************************************)
\* the normalized paths of the sources a run over `tree` enumerates
SourcePaths(tree) ==
  LET list == generateEmbeddingSources(tree) IN { list[n].path : n \in 1..Len(list) }

\* the content the loader gets for the source of that path (NoFile: it throws)
ContentAt(tree, path) == IF path \in DOMAIN tree THEN tree[path] ELSE NoFile

\* the run has ended by itself (it is about to release the pool)
Finished == pc = "finally"

\* the run got through its loop to the pruning statement
RanToPrune(l) == l.status \in {"complete", "pruneFailed"}

\* nothing went wrong in the run: no source ended in the catch, pruning done
Clean(l) == l.status = "complete" /\ l.failed = {}

\* the content texts of all sections of content c
SectionTexts(c) == { SectionOf(c, n).content : n \in 1..NumSections(c) }

\* the sections stored for a path: those owned by a row of `rows` with that path
SectionsByPath(rows, sections, path) ==
  { s \in sections : \E p \in rows : p.path = path /\ p.id = s.page_id }

\* row p owns exactly the sections of content c
OwnsAllSectionsOf(p, c) ==
  /\ { s.content : s \in SectionsOfPage(p.id) } = SectionTexts(c)
  /\ Cardinality(SectionsOfPage(p.id)) = NumSections(c)

(***************************************************************************)
(* C1.  In every state, a Document with a non-null checksum has all the    *)
(* Sections of the content with that checksum stored (the direction of the *)
(* claimed equivalence that readers of the store rely on: the checksum is  *)
(* set only when every Section is there).                                  *)
(***************************************************************************)
C1_ChecksumMeansAllSections ==
  \A p \in pages :
    p.checksum # NullChecksum =>
      \E c \in Contents : ChecksumOf(c) = p.checksum /\ OwnsAllSectionsOf(p, c)

(***************************************************************************)
(* C2.  Null-checksum recovery.  After a run in which the embedding call   *)
(* failed for a source, the path has a Document with a null checksum and   *)
(* fewer Sections than the source has; after a following run without      *)
(* embedding failure over the same tree, the Documents of the path         *)
(* carry the source's checksum and the path has exactly the n Sections.    *)
(***************************************************************************)
C2_NullChecksumRecovery ==
  /\ (Finished /\ RanToPrune(log)) =>
       \A path \in log.embedFailed :
         \E p \in PagesByPath(path) :
           /\ p.checksum = NullChecksum
           /\ Cardinality(SectionsOfPage(p.id)) < NumSections(ContentAt(log.tree, path))
  /\ (Finished /\ RanToPrune(log) /\ RanToPrune(prevLog) /\ ~log.flag /\ log.embedFailed = {}
        /\ log.tree = prevLog.tree) =>
       \A path \in prevLog.embedFailed \cap SourcePaths(log.tree) :
         ContentAt(log.tree, path) # NoFile =>
           /\ PagesByPath(path) # {}
           /\ \A p \in PagesByPath(path) : p.checksum = ChecksumOf(ContentAt(log.tree, path))
           /\ Cardinality(SectionsByPath(pages, pageSections, path))
                = NumSections(ContentAt(log.tree, path))

(***************************************************************************)
(* C3.  Pruning.  After a run over the sources S in which no source failed, *)
(* following a clean run over a larger set S', no Document and no Section  *)
(* of a path in S' \ S is left, and every path of S that had a Document    *)
(* keeps one.                                                              *)
(***************************************************************************)
C3_Pruning ==
  (Finished /\ RanToPrune(log) /\ log.failed = {} /\ Clean(prevLog) /\ ~log.flag /\ ~prevLog.flag
     /\ SourcePaths(log.tree) \subseteq SourcePaths(prevLog.tree)
     /\ SourcePaths(log.tree) # SourcePaths(prevLog.tree)) =>
    /\ \A path \in SourcePaths(prevLog.tree) \ SourcePaths(log.tree) :
         /\ PagesByPath(path) = {}
         /\ SectionsByPath(pre.pages, pageSections, path) = {}
    /\ \A path \in SourcePaths(log.tree) \ log.failed :
         (\E p \in pre.pages : p.path = path) => PagesByPath(path) # {}

(***************************************************************************)
(* C4.  Idempotence.  When two successive runs over the same tree, both    *)
(* without force refresh, both end with nothing gone wrong, the second run *)
(* creates no Section (the Section ids are those it found) and leaves      *)
(* every Document's checksum as it found it.                               *)
(***************************************************************************)
TwoCleanRuns ==
  /\ Finished
  /\ Clean(log) /\ Clean(prevLog)
  /\ ~log.flag /\ ~prevLog.flag
  /\ log.tree = prevLog.tree

C4_Idempotence ==
  TwoCleanRuns =>
    /\ { s.id : s \in pageSections } = { s.id : s \in pre.pageSections }
    /\ { << p.id, p.path, p.checksum >> : p \in pages }
         = { << p.id, p.path, p.checksum >> : p \in pre.pages }
    /\ \A path \in SourcePaths(log.tree) :
         \E p \in PagesByPath(path) : p.checksum = ChecksumOf(ContentAt(log.tree, path))

\* two clean runs over a tree with both sources, whose pages own sections
C4_Witness ==
  /\ TwoCleanRuns
  /\ SourcePaths(log.tree) = {PathA, PathB}
  /\ \A path \in {PathA, PathB} : SectionsByPath(pages, pageSections, path) # {}
  /\ log.skipped = {PathA, PathB}

(***************************************************************************)
(* C5.  Checksum-driven skip.  A source whose checksum equals that of the  *)
(* Document found for it, in a run without force refresh, takes the skip   *)
(* path, and the skip step changes nothing but meta, version and           *)
(* last_refresh of that one row: all ids, paths, checksums, parent links   *)
(* and all Sections stay, no id is drawn, and the loop moves to the next   *)
(* source without an embedding call.                                       *)
(***************************************************************************)
RowIdentity(p) ==
  [id |-> p.id, path |-> p.path, checksum |-> p.checksum,
   parent_page_id |-> p.parent_page_id, parent_path |-> p.parent_path]

SkipDecided ==
  (pc = "loop" /\ pc' \notin {"loop", "prune", "idle"}) =>
    ((~shouldRefreshAllPages /\ existingPage'.checksum = ChecksumOf(loaded')) => pc' = "skip")

SkipFrame ==
  (pc = "skip" /\ pc' # "idle") =>
    /\ pageSections' = pageSections
    /\ nextId' = nextId
    /\ { RowIdentity(p) : p \in pages' } = { RowIdentity(p) : p \in pages }
    /\ \A p \in pages : p.id # existingPage.id => p \in pages'
    /\ \A p \in pages' : p.id = existingPage.id =>
         p.version = refreshVersion /\ p.last_refresh = refreshVersion /\ p.meta = MetaOf(loaded)
    /\ idx' = idx + 1
    /\ pc' \in {"loop", "prune"}

C6_FullSectionReplacement ==
  (Finished /\ RanToPrune(log) /\ RanToPrune(prevLog) /\ ~log.flag /\ log.embedFailed = {}) =>
    \A path \in log.replaced \ log.failed :
      LET c == ContentAt(log.tree, path)
          now == SectionsByPath(pages, pageSections, path)
      IN  /\ { s.content : s \in now } = SectionTexts(c)
          /\ Cardinality(now) = NumSections(c)
          /\ \A s \in now : s.id \notin { t.id : t \in pre.pageSections }
          /\ SectionsByPath(pre.pages, pre.pageSections, path) \cap pageSections = {}

(***************************************************************************)
(* C7.  Force refresh.  After a run with shouldRefreshAllPages = TRUE      *)
(* whose walk succeeded, whose sources can all be loaded and in which no   *)
(* embedding call failed, every source has a Document with the source's    *)
(* checksum that owns all its Sections, and no Section of the path has an  *)
(* id from before the run.                                                 *)
(***************************************************************************)
C7_ForceRefresh ==
  (Finished /\ log.flag /\ log.status # "walkFailed" /\ log.embedFailed = {}
     /\ \A path \in SourcePaths(log.tree) : ContentAt(log.tree, path) # NoFile) =>
    \A path \in SourcePaths(log.tree) :
      /\ \E p \in PagesByPath(path) :
           /\ p.checksum = ChecksumOf(ContentAt(log.tree, path))
           /\ OwnsAllSectionsOf(p, ContentAt(log.tree, path))
      /\ \A s \in SectionsByPath(pages, pageSections, path) :
           s.id \notin { t.id : t \in pre.pageSections }

(***************************************************************************)
(* C8.  Per-source isolation.  The other sources end the run as if the     *)
(* failing source had not failed.  Had the failed sources been processed,  *)
(* their (single) found rows would have been stamped or emptied, so when   *)
(* every outdated row that still owns Sections belongs to a failed source, *)
(* the run without the failures prunes every outdated row: no row of a     *)
(* source that did not fail is then left with an older version.            *)
(***************************************************************************)
Blockers == { p \in pages : p.version # refreshVersion /\ SectionsOfPage(p.id) # {} }

C8_PerSourceIsolation ==
  (Finished /\ RanToPrune(log) /\ ~log.flag
     /\ \A b \in Blockers :
          b.path \in log.failed /\ Cardinality({ p \in pre.pages : p.path = b.path }) = 1) =>
    \A p \in pages : p.path \notin log.failed => p.version = refreshVersion

(***************************************************************************)
(* C9.  Abort safety and self-healing.  After a killed run, a following    *)
(* run that ends by itself, whose sources can all be loaded and all have a *)
(* Document when it starts, that starts without a Document of a removed    *)
(* source and over the files the killed run saw, and in which no source    *)
(* fails, leaves exactly one Document per source, with the source's        *)
(* checksum and exactly its Sections, and nothing else.                    *)
(***************************************************************************)
C9_SelfHealing ==
  (Finished /\ RanToPrune(log) /\ prevLog.status = "killed" /\ ~log.flag /\ log.failed = {}
     /\ log.tree = prevLog.tree
     /\ (\A q \in pre.pages : q.path \in SourcePaths(log.tree))
     /\ \A path \in SourcePaths(log.tree) :
          /\ ContentAt(log.tree, path) # NoFile
          /\ \E p \in pre.pages : p.path = path) =>
    /\ \A path \in SourcePaths(log.tree) :
         /\ Cardinality(PagesByPath(path)) = 1
         /\ \A p \in PagesByPath(path) :
              /\ p.checksum = ChecksumOf(ContentAt(log.tree, path))
              /\ OwnsAllSectionsOf(p, ContentAt(log.tree, path))
    /\ \A p \in pages : p.path \in SourcePaths(log.tree)
    /\ \A s \in pageSections : \E p \in pages : p.id = s.page_id

(***************************************************************************)
(* C10.  Documents are updated in place.  After a run, a path whose source *)
(* was processed without failure and that had a Document before the run    *)
(* has the same Document id(s) as before the run.                          *)
(***************************************************************************)
C10_UpdatedInPlace ==
  (Finished /\ RanToPrune(log)) =>
    \A path \in SourcePaths(log.tree) \ log.failed :
      (\E p \in pre.pages : p.path = path) =>
        { p.id : p \in PagesByPath(path) } = { p.id : p \in { q \in pre.pages : q.path = path } }

(***************************************************************************)
(* C11.  Path uniqueness.  In every reachable state there is at most one   *)
(* Document row for any path, so the select of line 60 has at most one     *)
(* match.                                                                  *)
(***************************************************************************)
C11_PathUniqueness ==
  \A p \in pages : \A q \in pages : p.path = q.path => p.id = q.id

(***************************************************************************)
(* C12.  Section ownership is never dangling.  Every Section's page_id     *)
(* refers to a stored Document, and each statement that deletes Documents  *)
(* (the prune of line 136, the wipe of line 51) succeeds also when the     *)
(* Documents own Sections: after the prune no outdated Document is left,   *)
(* after the wipe no Document and none of their Sections is left.          *)
(***************************************************************************)
NoDanglingSection == \A s \in pageSections : \E p \in pages : p.id = s.page_id

PruneDeletes ==
  (pc = "prune" /\ pc' # "idle") => \A p \in pages' : p.version = refreshVersion

WipeDeletes ==
  (pc = "wipePages" /\ pc' # "idle") => pages' = {} /\ pageSections' = {}

C12_DeletesTakeSections == [][NoDanglingSection' /\ PruneDeletes /\ WipeDeletes]_vars

(***************************************************************************)
(* C13.  Parent linkage.  With the index document docs/guides.mdx beside   *)
(* the directory of docs/guides/setup.md, the source of setup.md gets the  *)
(* parentPath that is the stored path of the index Document, and a setup   *)
(* Document written in a run in which a Document of the index is in the    *)
(* store refers to it in parent_page_id.                                   *)
(***************************************************************************)
SetupParentPath ==
  (pc \notin {"idle", "walk"} /\ Present(fs, GuidesIndex)) =>
    \A n \in 1..Len(embeddingSources) :
      embeddingSources[n].path = NormalizePath(SetupFile) =>
        embeddingSources[n].parentPath = NormalizePath(GuidesIndex)

SetupParentId ==
  (Finished /\ Present(fs, GuidesIndex) /\ PagesByPath(NormalizePath(GuidesIndex)) # {}) =>
    \A p \in PagesByPath(NormalizePath(SetupFile)) :
      (p.version = refreshVersion /\ p.id \notin { q.id : q \in pre.pages }) =>
        p.parent_page_id \in { q.id : q \in PagesByPath(NormalizePath(GuidesIndex)) }

C13_ParentLinkage == SetupParentPath /\ SetupParentId

(***************************************************************************)
(* C14.  Sections are all-or-nothing per refresh.  When a run has ended,   *)
(* each Document written or stamped by it owns either all Sections of the  *)
(* content of its source or no Section at all.                             *)
(***************************************************************************)
C14_AllOrNothing ==
  Finished =>
    \A p \in pages :
      (p.version = refreshVersion /\ ContentAt(log.tree, p.path) # NoFile) =>
        \/ SectionsOfPage(p.id) = {}
        \/ OwnsAllSectionsOf(p, ContentAt(log.tree, p.path))

(***************************************************************************)
(* C15.  Abort on first embedding failure.  The step in which the          *)
(* embedding call of a Section fails inserts nothing, leaves the checksum  *)
(* of the new Document null and passes control to the per-source handler   *)
(* (the source is recorded as failed and the loop moves to the next        *)
(* source); for the rest of the run the Document of that source keeps its  *)
(* null checksum and gets no further Section.                              *)
(***************************************************************************)
EmbeddingFailed == pc = "embed" /\ pageSections' = pageSections /\ pc' # "idle"

FailureGoesToHandler ==
  EmbeddingFailed =>
    /\ pages' = pages
    /\ \A p \in pages : p.id = newPage => p.checksum = NullChecksum
    /\ embeddingSources[idx].path \in log'.embedFailed
    /\ idx' = idx + 1
    /\ pc' \in {"loop", "prune"}

FailedSourceLeftAlone ==
  \A p \in pages :
    (p.path \in log.embedFailed /\ p.version = refreshVersion) =>
      /\ p \in pages'
      /\ p.checksum = NullChecksum
      /\ { s \in pageSections' : s.page_id = p.id } = SectionsOfPage(p.id)
      /\ Cardinality(SectionsOfPage(p.id)) < NumSections(ContentAt(log.tree, p.path))

C15_AbortOnFirstFailure == [][FailureGoesToHandler /\ FailedSourceLeftAlone]_vars

\* the second embedding call of a source failed: its new Document has a null
\* checksum and one of its two Sections, and the loop has moved on
C15_Witness ==
  /\ pc \in {"loop", "prune"}
  /\ \E p \in pages :
       /\ p.path \in log.embedFailed
       /\ p.version = refreshVersion
       /\ p.checksum = NullChecksum
       /\ Cardinality(SectionsOfPage(p.id)) = 1
       /\ NumSections(ContentAt(log.tree, p.path)) = 2

(***************************************************************************)
(* C16.  Load failure purges.  The iteration of a source whose load fails  *)
(* performs no store operation, and the prune of the same run removes the  *)
(* Document of that path together with its Sections.                       *)
(***************************************************************************)
LoadFailed(l) == { path \in l.failed : ContentAt(l.tree, path) = NoFile }

LoadFailureTouchesNothing ==
  (pc = "loop" /\ pc' # "idle" /\ loadMarkdownSource(embeddingSources[idx]) = NoFile) =>
    /\ UNCHANGED store
    /\ embeddingSources[idx].path \in log'.failed

PruneRemovesUnloadable ==
  (pc = "prune" /\ pc' # "idle") =>
    \A path \in LoadFailed(log) :
      /\ { p \in pages' : p.path = path } = {}
      /\ SectionsByPath(pre.pages, pageSections', path) = {}

C16_LoadFailurePurges == [][LoadFailureTouchesNothing /\ PruneRemovesUnloadable]_vars

(***************************************************************************)
(* C17.  Resource release.  The pool of a run is released exactly once, at *)
(* the end of the run, on every exit path: while the run is at work the    *)
(* pool has not been ended; however the run ends by itself (complete, with *)
(* failed sources, failed enumeration, failed wipe, failed prune) it goes  *)
(* through the finally block, which ends the pool once.                    *)
(***************************************************************************)
EndedBy == {"complete", "pruneFailed", "walkFailed", "wipeFailed"}

ReleasedOnce ==
  /\ pc # "idle" => poolEnds = 0
  /\ log.status \in EndedBy => pc \in {"finally", "idle"}
  /\ (pc = "idle" /\ log.status \in EndedBy) => poolEnds = 1

FinallyReleases ==
  pc = "finally" => pc' = "idle" /\ poolEnds' = poolEnds + 1

C17_ResourceRelease == [][ReleasedOnce' /\ FinallyReleases]_vars

\* a run whose pruning statement was rejected has ended and released its pool
C17_Witness ==
  pc = "idle" /\ log.status = "pruneFailed" /\ log.failed # {} /\ poolEnds = 1

(***************************************************************************)
(* C18.  Exit status.  When the enumeration of the source root fails the   *)
(* action reports failure (core.setFailed); when the run gets through its  *)
(* loop and only individual sources fail, the action reports success.      *)
(***************************************************************************)
C18_ExitStatus ==
  /\ (pc = "idle" /\ log.status = "walkFailed") => reported = "setFailed"
  /\ (pc = "idle" /\ log.status = "complete" /\ log.failed # {}) => reported = "notice"

(***************************************************************************)
(* C19.  New Document creation.  After a run that got to its pruning       *)
(* statement, a source whose path had no Document before the run, whose    *)
(* load succeeds and none of whose embedding calls failed has exactly one  *)
(* Document, with the checksum of the source, the version stamp of the run *)
(* and one Section per section of the source.                              *)
(***************************************************************************)
C19_NewDocumentCreated ==
  (Finished /\ RanToPrune(log)) =>
    \A path \in SourcePaths(log.tree) \ log.embedFailed :
      (ContentAt(log.tree, path) # NoFile /\ { q \in pre.pages : q.path = path } = {}) =>
        /\ Cardinality(PagesByPath(path)) = 1
        /\ \A p \in PagesByPath(path) :
             /\ p.checksum = ChecksumOf(ContentAt(log.tree, path))
             /\ p.version = refreshVersion
             /\ OwnsAllSectionsOf(p, ContentAt(log.tree, path))

(***************************************************************************)
(* C20.  Refresh decision.  For a source that loads, the skip path is      *)
(* taken exactly when a Document is found for its path, its checksum       *)
(* equals the new checksum and the force-refresh flag is not set; in every *)
(* other case (no Document, another checksum, a null checksum, the flag)   *)
(* the source goes down the refresh path.                                  *)
(***************************************************************************)
DecisionStep ==
  pc = "loop" /\ pc' # "idle" /\ loadMarkdownSource(embeddingSources[idx]) # NoFile

SkipOnlyWhenUnchanged ==
  (DecisionStep /\ pc' = "skip") =>
    /\ existingPage' \in PagesByPath(embeddingSources[idx].path)
    /\ existingPage'.checksum = ChecksumOf(loadMarkdownSource(embeddingSources[idx]))
    /\ existingPage'.checksum # NullChecksum
    /\ ~shouldRefreshAllPages

RefreshOnlyWhenNeeded ==
  (DecisionStep /\ pc' # "skip") =>
    \/ shouldRefreshAllPages
    \/ PagesByPath(embeddingSources[idx].path) = {}
    \/ /\ pc' \in {"deleteOld", "insertPage"}
       /\ existingPage' \in PagesByPath(embeddingSources[idx].path)
       /\ existingPage'.checksum # ChecksumOf(loadMarkdownSource(embeddingSources[idx]))

C20_RefreshDecision == [][SkipOnlyWhenUnchanged /\ RefreshOnlyWhenNeeded]_vars

\* a found Document with a null checksum is refreshed without the flag
C20_Witness ==
  /\ pc = "deleteOld"
  /\ ~shouldRefreshAllPages
  /\ existingPage \in pages
  /\ existingPage.checksum = NullChecksum

(***************************************************************************)
(* C21.  Old and new Sections are never mixed.  While a source that had a  *)
(* Document is on the refresh path past the deletion of line 76 (its new   *)
(* row is inserted, its new Sections are being inserted), the store holds  *)
(* no Section of that path from before: every Section of the path is owned *)
(* by the new row.                                                         *)
(***************************************************************************)
C21_NoStaleBesideNew ==
  (pc \in {"embed", "setChecksum"} /\ existingPage # NoPage) =>
    \A s \in SectionsByPath(pages, pageSections, embeddingSources[idx].path) :
      s.page_id = newPage

(***************************************************************************)
(* C22.  Pruning keeps what the run touched.  When the pruning statement   *)
(* of a run succeeds, every row left carries the run's version; every row  *)
(* that carried it before the statement is still there, so every path the  *)
(* run skipped, refreshed, or left with a null checksum after a failed     *)
(* embedding call keeps a row with the run's version; the rows deleted are *)
(* rows the run did not stamp, and no Section is touched.                  *)
(***************************************************************************)
PruneSucceeds == pc = "prune" /\ pc' = "finally" /\ log'.status = "complete"

PruneKeepsTouched ==
  PruneSucceeds =>
    /\ pages' \subseteq pages
    /\ pageSections' = pageSections
    /\ \A p \in pages' : p.version = refreshVersion
    /\ \A p \in pages : p.version = refreshVersion => p \in pages'
    /\ \A p \in pages \ pages' : p.version # refreshVersion
    /\ \A path \in log.skipped \cup log.replaced :
         \E p \in pages' : p.path = path /\ p.version = refreshVersion
    /\ \A path \in log.embedFailed :
         \E p \in pages' : p.path = path /\ p.version = refreshVersion /\ p.checksum = NullChecksum

C22_PruningKeepsTouched == [][PruneKeepsTouched]_vars

\* a pruning that succeeded and deleted a row, after a run that skipped one
\* path and left another with a null checksum after a failed embedding call
C22_Witness ==
  /\ pc = "finally"
  /\ log.status = "complete"
  /\ log.skipped # {}
  /\ log.embedFailed # {}
  /\ \E p \in pre.pages : p \notin pages /\ p.id \notin { q.id : q \in pages }
  /\ \A path \in log.skipped \cup log.embedFailed : PagesByPath(path) # {}

(***************************************************************************)
(* C23.  Parent resolution on refresh.  The row a refresh inserts is       *)
(* linked to a row whose path is the source's parentPath when such a row   *)
(* exists at that moment, and has no parent when the source has no         *)
(* parentPath or no row has that path; it is never linked to a row of      *)
(* another path.                                                           *)
(***************************************************************************)
ParentCandidates ==
  IF embeddingSources[idx].parentPath = NoPath THEN {}
  ELSE PagesByPath(embeddingSources[idx].parentPath)

ParentResolved ==
  (pc = "insertPage" /\ pc' # "idle") =>
    /\ Cardinality(pages' \ pages) = 1
    /\ \A p \in pages' \ pages :
         /\ p.id = newPage'
         /\ p.path = embeddingSources[idx].path
         /\ IF ParentCandidates = {}
              THEN p.parent_page_id = NullId /\ p.parent_path = NoPath
              ELSE /\ p.parent_page_id \in { q.id : q \in ParentCandidates }
                   /\ p.parent_path = embeddingSources[idx].parentPath
         /\ \A q \in pages : q.id = p.parent_page_id => q.path = embeddingSources[idx].parentPath

C23_ParentResolution == [][ParentResolved]_vars

\* a refreshed row linked to the row of another path, its parent
C23_Witness ==
  /\ pc \in {"embed", "setChecksum"}
  /\ \E p \in pages :
       /\ p.id = newPage
       /\ p.parent_page_id # NullId
       /\ \E q \in pages : q.id = p.parent_page_id /\ q.path # p.path /\ q.path = p.parent_path

(***************************************************************************)
(* C24.  Parent before child.  In the list the run enumerated, a source    *)
(* with a parentPath comes after the source whose path is that parentPath, *)
(* whenever another source of the list has that path.                      *)
(***************************************************************************)
C24_ParentBeforeChild ==
  \A i \in 1..Len(embeddingSources), j \in 1..Len(embeddingSources) :
    (/\ i # j
     /\ embeddingSources[i].parentPath # NoPath
     /\ embeddingSources[j].path = embeddingSources[i].parentPath) => j < i

(***************************************************************************)
(* C25.  Parent shadowing in enumeration.  The parentPath of every         *)
(* enumerated file is the index file nested in the nearest enclosing       *)
(* directory that has one (for a directory named n, the file n.mdx inside  *)
(* it); a directory without such a file passes the outer parentPath on,    *)
(* and a file with no enclosing index directory has no parentPath.         *)
(***************************************************************************)
\* the index file nested in the nearest directory, from dir up to below the
\* root, that holds one
RECURSIVE NestedIndexOf(_, _)
NestedIndexOf(tree, dir) ==
  IF Len(dir) <= 1 THEN NoPath
  ELSE IF Present(tree, File(dir \o << dir[Len(dir)] >>, ".mdx"))
         THEN File(dir \o << dir[Len(dir)] >>, ".mdx")
         ELSE NestedIndexOf(tree, SubSeq(dir, 1, Len(dir) - 1))

C25_ParentShadowing ==
  \A n \in 1..Len(embeddingSources) :
    LET segs == embeddingSources[n].path.segs
    IN  embeddingSources[n].parentPath
          = NormalizePath(NestedIndexOf(log.tree, SubSeq(segs, 1, Len(segs) - 1)))

(***************************************************************************)
(* C26.  Enumeration result.  For every tree that can be read, walk        *)
(* returns (it does not reject), and what it returns has exactly one entry *)
(* per file of the tree, none twice, sorted ascending by path.             *)
(***************************************************************************)
\* the position of a name in the order of the paths
Rank(f) == CHOOSE n \in 1..Len(WalkOrder) : WalkOrder[n] = f

WalkResultRight(tree) ==
  LET r == walk(tree)
  IN  /\ { r[n].path : n \in 1..Len(r) } = { f \in DOMAIN tree : Present(tree, f) }
      /\ \A i \in 1..Len(r), j \in 1..Len(r) : i < j => Rank(r[i].path) < Rank(r[j].path)

WalkReturns ==
  (pc = "walk" /\ pc' # "idle") =>
    /\ \A statCall \in StatCalls : ~walkRejects(fs, TRUE, statCall)
    /\ WalkResultRight(fs)
    /\ pc' # "finally" => embeddingSources' = generateEmbeddingSources(fs)

C26_EnumerationResult == [][WalkReturns]_vars

(***************************************************************************)
(* C27.  Strictly sequential processing.  Within a run the sources are     *)
(* taken in the order of the list, one after the other, each once: the     *)
(* loop index moves by one, and only when the work on the current source   *)
(* has ended (skipped, checksum set, or failed); while a source is being   *)
(* worked on, every change of the store concerns rows of that source; the  *)
(* pruning statement runs only after the last source.                      *)
(***************************************************************************)
InLoop == pc \in {"loop", "skip", "deleteOld", "insertPage", "embed", "setChecksum"}

OneSourceAtATime ==
  (InLoop /\ pc' # "idle") =>
    /\ embeddingSources' = embeddingSources
    /\ idx \in 1..Len(embeddingSources)
    /\ idx' \in {idx, idx + 1}
    /\ idx' = idx + 1 =>
         /\ pc \in {"loop", "skip", "embed", "setChecksum"}
         /\ pc' = (IF idx = Len(embeddingSources) THEN "prune" ELSE "loop")
         /\ loaded' = NoFile /\ existingPage' = NoPage /\ newPage' = NullId
    /\ idx' = idx => pc' \notin {"loop", "prune"}
    /\ \A p \in (pages' \ pages) \cup (pages \ pages') : p.path = embeddingSources[idx].path
    /\ \A s \in (pageSections' \ pageSections) \cup (pageSections \ pageSections') :
         \E p \in pages : p.id = s.page_id /\ p.path = embeddingSources[idx].path

PruneAfterLastSource ==
  /\ pc' = "prune" => idx' = Len(embeddingSources') + 1
  /\ (pc = "prune" /\ pc' # "idle") => pages' \subseteq pages /\ pageSections' = pageSections

C27_StrictlySequential == [][OneSourceAtATime /\ PruneAfterLastSource]_vars

\* the loop has gone through two sources, both of which changed the store
C27_Witness ==
  /\ pc = "prune"
  /\ Len(embeddingSources) = 2
  /\ Cardinality(log.skipped \cup log.replaced) = 2
  /\ log.replaced # {}

(***************************************************************************)
(* C28.  Embedding responses that are not successful are rejected.  A step *)
(* of the section loop in which the provider answers with a status other   *)
(* than 200 inserts no Section row and ends the work on the source as a    *)
(* failed embedding, exactly as a rejected call does.                      *)
(***************************************************************************)
EmbedStep == pc = "embed" /\ pc' # "idle"

Non200Rejected ==
  \A status \in EmbeddingStatuses \ {200, 0} :
    (EmbedStep /\ EmbedResponse(status)) =>
      /\ pageSections' = pageSections
      /\ nextId' = nextId
      /\ pages' = pages
      /\ embeddingSources[idx].path \in log'.embedFailed
      /\ embeddingSources[idx].path \in log'.failed
      /\ idx' = idx + 1
      /\ EmbedResponse(0)

C28_Non200Rejected == [][Non200Rejected]_vars

\* the first embedding call of a source was not answered with 200: its new
\* row has a null checksum and owns no Section
C28_Witness ==
  /\ pc \in {"loop", "prune"}
  /\ \E p \in pages :
       /\ p.path \in log.embedFailed
       /\ p.version = refreshVersion
       /\ p.checksum = NullChecksum
       /\ SectionsOfPage(p.id) = {}

(***************************************************************************)
(* C29.  Section splitting.  When splitTreeBy has gone through the nodes,  *)
(* the trees it made, put one after the other, are the input; no tree is   *)
(* empty; every tree after the first starts with a heading and no tree has *)
(* a heading anywhere but at its start (so a leading run of other nodes is *)
(* the first tree); an empty input gives no tree.                          *)
(***************************************************************************)
RECURSIVE Flatten(_)
Flatten(trees) ==
  IF trees = << >> THEN << >> ELSE Flatten(SubSeq(trees, 1, Len(trees) - 1)) \o trees[Len(trees)]

SplitDone == node = Len(mdTree) + 1

C29_SectionSplitting ==
  SplitDone =>
    /\ Flatten(sectionTrees) = mdTree
    /\ \A g \in 1..Len(sectionTrees) :
         /\ sectionTrees[g] # << >>
         /\ g > 1 => predicate(sectionTrees[g][1])
         /\ \A k \in 2..Len(sectionTrees[g]) : ~predicate(sectionTrees[g][k])
    /\ mdTree = << >> => sectionTrees = << >>
    /\ (mdTree # << >> /\ ~predicate(mdTree[1])) =>
         /\ ~predicate(sectionTrees[1][1])
         /\ \A k \in 1..Len(mdTree) :
              (\A m \in 1..k : ~predicate(mdTree[m])) => Len(sectionTrees[1]) >= k

\* a document with text before its first heading and two headed sections
C29_Witness ==
  /\ SplitDone
  /\ Len(mdTree) = MaxNodes
  /\ ~predicate(mdTree[1])
  /\ Len(sectionTrees) = 3

(***************************************************************************)
(* C30.  Deleting a child leaves its parent alone.  When the pruning       *)
(* statement deletes a row that has a parent, the parent's row is still    *)
(* there afterwards, unchanged, unless it is itself a row without the      *)
(* run's version, and the Sections the parent owns are the same.           *)
(***************************************************************************)
ParentLeftAlone ==
  PruneSucceeds =>
    \A p \in pages \ pages' :
      \A q \in pages :
        q.id = p.parent_page_id =>
          /\ q.version = refreshVersion => q \in pages'
          /\ { s \in pageSections' : s.page_id = q.id } = SectionsOfPage(q.id)

C30_ParentLeftAlone == [][ParentLeftAlone]_vars

\* the pruning deleted a row linked to a parent of another path; the parent
\* is there with its Sections
C30_Witness ==
  /\ pc = "finally"
  /\ log.status = "complete"
  /\ \E p \in pre.pages :
       /\ p \notin pages
       /\ \E q \in pages :
            /\ q.id = p.parent_page_id
            /\ q.path # p.path
            /\ q.id \in { r.id : r \in pre.pages }
            /\ SectionsOfPage(q.id) = { s \in pre.pageSections : s.page_id = q.id }
            /\ SectionsOfPage(q.id) # {}

(***************************************************************************)
(* C31.  Parent update on the skip path.  When a source is skipped as      *)
(* unchanged and a row with the path of its parentPath is in the store,    *)
(* the skipped row refers to such a row in parent_page_id after the skip   *)
(* step, whatever it referred to before.                                   *)
(***************************************************************************)
SkipUpdatesParent ==
  (pc = "skip" /\ pc' # "idle" /\ ParentCandidates # {}) =>
    \A p \in pages' :
      p.id = existingPage.id => p.parent_page_id \in { q.id : q \in ParentCandidates }

C31_SkipUpdatesParent == [][SkipUpdatesParent]_vars

(***************************************************************************)
(* C32.  A failed enumeration never prunes.  Once the walk of a run has    *)
(* failed, the run goes straight to its end: neither the wipe nor the loop *)
(* nor the pruning statement is reached, and the two tables are as the run *)
(* found them, also when the run has the force-refresh flag.               *)
(***************************************************************************)
C32_FailedWalkTouchesNothing ==
  log.status = "walkFailed" =>
    /\ pc \in {"finally", "idle"}
    /\ embeddingSources = << >>
    /\ pages = pre.pages
    /\ pageSections = pre.pageSections

\* a run with the force-refresh flag whose walk failed has ended, over a
\* store that holds pages and sections
C32_Witness ==
  /\ pc = "idle"
  /\ log.status = "walkFailed"
  /\ log.flag
  /\ poolEnds = 1
  /\ pages # {}
  /\ pageSections # {}

(***************************************************************************)
(* C33.  Parent references are never dangling after a run.  When a run has *)
(* ended with its pruning done, every row with a parent_page_id refers to  *)
(* a row that is in the store.                                             *)
(***************************************************************************)
C33_NoDanglingParent ==
  (Finished /\ log.status = "complete") =>
    \A p \in pages :
      p.parent_page_id # NullId => \E q \in pages : q.id = p.parent_page_id

(***************************************************************************)
(* C34.  The loader reads the enumerated file.  For every enumerated file  *)
(* that passes the source filter, the path the loader reads is the path    *)
(* of that file, and the content a source is processed with is the content *)
(* of that file.                                                           *)
(***************************************************************************)
\* the entries of walk that pass the filter of line 17, in order: the n-th
\* is the file the n-th source was made from
EnumeratedFiles(tree) ==
  LET keep(e) == e.path \notin ignoredFiles /\ IsMarkdown(e.path)
  IN  SelectSeq(walk(tree), keep)

\* the path loadMarkdownSource hands to readFile
ReadPath(sourceData) == sourceData.path

C34_LoaderReadsEnumeratedFile ==
  /\ \A n \in 1..Len(embeddingSources) :
       ReadPath(embeddingSources[n]) = EnumeratedFiles(fs)[n].path
  /\ pc \in {"skip", "deleteOld", "insertPage", "embed", "setChecksum"} =>
       loaded = fs[EnumeratedFiles(fs)[idx].path]

(***************************************************************************)
(* C35.  Source filter.  Every source of a run was made from an enumerated *)
(* file whose name ends in .md or .mdx and that is not the file            *)
(* pages/404.mdx under the document root, and no row that carries the      *)
(* run's version has the path of that ignored file.                        *)
(***************************************************************************)
\* the file pages/404.mdx under the document root (the first segment)
IgnoredUnderRoot(f) == Tail(f.segs) = <<"pages", "404">> /\ f.ext = ".mdx"

C35_SourceFilter ==
  /\ \A n \in 1..Len(embeddingSources) :
       /\ IsMarkdown(EnumeratedFiles(fs)[n].path)
       /\ ~IgnoredUnderRoot(EnumeratedFiles(fs)[n].path)
  /\ \A p \in pages :
       (runs = MaxRuns /\ p.version = refreshVersion) =>
         \A f \in DOMAIN fs : IgnoredUnderRoot(f) => p.path # NormalizePath(f)

====
